---- MODULE Spec2Model ----
(***************************************************************************)
(* A model of the ASCII tree generator (src/lib.py, src/util.py): the      *)
(* ray-casting containment test, the recursive branch generator and the    *)
(* silhouette extractor, the rasterizer, the substitution phases, the      *)
(* grass layer and the compositing export.                                 *)
(*                                                                         *)
(* Numbers.  The program computes with floats.  The model computes with    *)
(* integers: polygon vertices have integer coordinates, a query point is   *)
(* a pair of fractions x/dx, y/dy, and every comparison of the code is     *)
(* cross-multiplied so that it is decided exactly.  Thickness is counted   *)
(* in halves (1.0 is 2).                                                   *)
(***************************************************************************)
EXTENDS Integers, Sequences, FiniteSets, TLC

VARIABLES
    polygon,            \* geometry: the polygon handed to is_within_polygon
    point,              \* geometry: the query point (self)
    result,             \* geometry: what is_within_polygon did ("none" before the call)
    minimum_node_thickness, \* AsciiTree.minimum_node_thickness, in halves
    nodes,              \* the Node objects in creation order; nodes[1] is self.root
    stack,              \* the active calls of __generate_branches, innermost last
    silhouette,         \* self.silhouette
    tpc,                \* where the branch generator is: "branches", "silhouette", "done"
    size,               \* AsciiTree.size: <<rows, cols>>
    substitutions,      \* AsciiTree.substitutions: the phases, each a list of rules
    composition,        \* AsciiTree.composition: the list of layers
    pc,                 \* "idle" between calls; "phase", "return" inside __get_picture
    picture,            \* __get_picture: picture
    mask,               \* __get_picture: mask
    filtered_picture,   \* __get_picture: filtered_picture (<<>> while unbound)
    phase,              \* __get_picture: the 1-based index of the phase being applied
    cursor,             \* __get_picture: cells of the phase done, in row-major order
    heights,            \* grass: int(heights[column]) of the last call, per column
    raised,             \* the exception the last call ended with, or "none"
    last_call,          \* the method called last: "generate", "grass", "export"
    calls,              \* generate() and grass() calls so far
    output              \* export: the rows of characters written (<<>> before)

geomVars == <<polygon, point, result>>

treeVars == <<minimum_node_thickness, nodes, stack, silhouette, tpc>>

pictureVars == <<picture, mask, filtered_picture, phase, cursor>>

instanceVars == <<size, substitutions, composition, pc, heights, raised,
                  last_call, calls, output>>

vars == <<geomVars, treeVars, pictureVars, instanceVars>>

(***************************************************************************)
(* Bounds                                                                  *)
(***************************************************************************)
\* Polygon vertices and query points of the geometry checks lie in 0..MaxCoord.
MaxCoord == 2

\* The geometry checks run over every polygon with this many vertices.
PolygonSizes == {3, 4}

\* The caller's children_orientation_offsets returns at most this many offsets.
MaxChildren == 2

\* minimum_node_thickness ranges over 1..MaxMinThickness halves.
MaxMinThickness == 3

\* Node.thickness defaults to 1.0: two halves.
RootThickness == 2

\* size ranges over 1..MaxRows by 1..MaxCols in the instance specification.
MaxRows == 3

MaxCols == 2

\* size ranges over 1..MaxPictureSide squared in the substitution specification.
MaxPictureSide == 3

\* grass() is called with max_height in 0..MaxGrassHeight.
MaxGrassHeight == 2

\* At most this many generate() and grass() calls are made on an instance.
MaxCalls == 2

\* get_wave's default number of smoothing iterations.
WaveIterations == 10

(***************************************************************************)
(* Geometry: Point and Point.is_within_polygon                             *)
(***************************************************************************)
\* Point(x, y), the coordinates being the fractions x/dx and y/dy (dx, dy > 0).
Frac(x, dx, y, dy) == [x |-> x, dx |-> dx, y |-> y, dy |-> dy]

\* Point(x, y) with integer coordinates.
Pt(x, y) == Frac(x, 1, y, 1)

\* polygon[i] for a Python index i >= -1 (polygon[-1] is the last vertex).
PyIndex(seq, i) == IF i < 0 THEN seq[Len(seq) + i + 1] ELSE seq[i + 1]

\* A variant of InYRange with both ends of the range closed.
InYRangeClosed(self, p1, p2) ==
    \/ p1.y * self.dy <= self.y /\ self.y <= p2.y * self.dy
    \/ p2.y * self.dy <= self.y /\ self.y <= p1.y * self.dy

\* p1.y <= self.y < p2.y or p2.y <= self.y < p1.y   (p1, p2 integer vertices)
InYRange(self, p1, p2) ==
    \/ p1.y * self.dy <= self.y /\ self.y < p2.y * self.dy
    \/ p2.y * self.dy <= self.y /\ self.y < p1.y * self.dy

\* (p2.x - p1.x) * (self.y - p1.y) / (p2.y - p1.y) + p1.x < self.x, for
\* p2.y # p1.y: both sides multiplied by m = (p2.y - p1.y) * dy * dx, the
\* comparison turned round when m is negative.
CrossesLeft(self, p1, p2) ==
    LET m == (p2.y - p1.y) * self.dy * self.dx
        lhs == (p2.x - p1.x) * (self.y - p1.y * self.dy) * self.dx + p1.x * m
        rhs == self.x * (p2.y - p1.y) * self.dy
    IN  IF m > 0 THEN lhs < rhs ELSE lhs > rhs

\* The loop of is_within_polygon from index i on: the edges polygon[i],
\* polygon[i + 1] for i in range(-1, len(polygon) - 1).  The outcome is the
\* boolean returned ("True", "False") or the "ZeroDivisionError" that the
\* interpolation raises on a zero divisor.
RECURSIVE ScanEdges(_, _, _, _)
ScanEdges(self, poly, i, inside) ==
    IF i >= Len(poly) - 1
    THEN (IF inside THEN "True" ELSE "False")
    ELSE LET p1 == PyIndex(poly, i)
             p2 == PyIndex(poly, i + 1)
         IN  IF ~InYRange(self, p1, p2)
             THEN ScanEdges(self, poly, i + 1, inside)
             ELSE IF p2.y - p1.y = 0
                  THEN "ZeroDivisionError"
                  ELSE ScanEdges(self, poly, i + 1,
                                 IF CrossesLeft(self, p1, p2) THEN ~inside ELSE inside)

\* A variant of is_within_polygon that leaves out the wrap-around edge
\* (range(0, len(polygon) - 1)).
is_within_polygon_no_wrap(self, poly) == ScanEdges(self, poly, 0, FALSE)

is_within_polygon(self, poly) == ScanEdges(self, poly, -1, FALSE)

(***************************************************************************)
(* Geometry specification: one call of is_within_polygon on any polygon    *)
(* and any query point of the grid.                                        *)
(***************************************************************************)
Coords == 0..MaxCoord

Vertices == {Pt(x, y) : x \in Coords, y \in Coords}

Polygons == UNION {[1..n -> Vertices] : n \in PolygonSizes}

GeomIdle ==
    /\ polygon = <<>>
    /\ point = Pt(0, 0)
    /\ result = "none"

InstanceIdle ==
    /\ size = <<1, 1>>
    /\ substitutions = <<>>
    /\ composition = <<>>
    /\ pc = "idle"
    /\ picture = <<>>
    /\ mask = <<>>
    /\ filtered_picture = <<>>
    /\ phase = 0
    /\ cursor = 0
    /\ heights = <<>>
    /\ raised = "none"
    /\ last_call = "none"
    /\ calls = 0
    /\ output = <<>>

TreeIdle ==
    /\ minimum_node_thickness = 1
    /\ nodes = <<>>
    /\ stack = <<>>
    /\ silhouette = <<>>
    /\ tpc = "done"

InitGeom ==
    /\ polygon \in Polygons
    /\ point \in Vertices
    /\ result = "none"
    /\ TreeIdle
    /\ InstanceIdle

Query ==
    /\ result = "none"
    /\ result' = is_within_polygon(point, polygon)
    /\ UNCHANGED <<polygon, point, treeVars, pictureVars, instanceVars>>

NextGeom == Query

SpecGeom == InitGeom /\ [][NextGeom]_vars

(***************************************************************************)
(* Geometry claims                                                         *)
(***************************************************************************)
\* The edges of a polygon, the wrap-around pair (last, first) included.
Edges(poly) == {<<poly[i], poly[(i % Len(poly)) + 1]>> : i \in 1..Len(poly)}

VerticesOf(poly) == {poly[i] : i \in 1..Len(poly)}

\* Twice the signed area of the triangle a, b, p: positive when p lies to the
\* left of the line from a to b, zero when p lies on it.
Cross(a, b, p) == (b.x - a.x) * (p.y - a.y) - (b.y - a.y) * (p.x - a.x)

\* Every vertex lies on or to the left (right) of every edge.
TurnsLeft(poly) ==
    \A e \in Edges(poly) : \A v \in VerticesOf(poly) : Cross(e[1], e[2], v) >= 0

TurnsRight(poly) ==
    \A e \in Edges(poly) : \A v \in VerticesOf(poly) : Cross(e[1], e[2], v) <= 0

Convex(poly) == TurnsLeft(poly) \/ TurnsRight(poly)

\* A convex polygon with a non-empty interior.
ProperConvex(poly) ==
    /\ Convex(poly)
    /\ \E e \in Edges(poly) : \E v \in VerticesOf(poly) : Cross(e[1], e[2], v) # 0

InBoundingBox(poly, p) ==
    /\ \E v \in VerticesOf(poly) : v.x <= p.x
    /\ \E v \in VerticesOf(poly) : v.x >= p.x
    /\ \E v \in VerticesOf(poly) : v.y <= p.y
    /\ \E v \in VerticesOf(poly) : v.y >= p.y

\* p is a point of the convex polygon, its boundary and vertices included.
Contains(poly, p) ==
    /\ InBoundingBox(poly, p)
    /\ \/ TurnsLeft(poly) /\ \A e \in Edges(poly) : Cross(e[1], e[2], p) >= 0
       \/ TurnsRight(poly) /\ \A e \in Edges(poly) : Cross(e[1], e[2], p) <= 0

\* p is an interior point of the convex polygon: strictly on the inner side
\* of every edge that has a direction.
StrictlyInside(poly, p) ==
    /\ ProperConvex(poly)
    /\ \/ /\ TurnsLeft(poly)
          /\ \A e \in Edges(poly) : e[1] # e[2] => Cross(e[1], e[2], p) > 0
       \/ /\ TurnsRight(poly)
          /\ \A e \in Edges(poly) : e[1] # e[2] => Cross(e[1], e[2], p) < 0

\* The polygon has a horizontal edge at the height of p.
HorizontalEdgeAt(poly, p) ==
    \E e \in Edges(poly) : e[1].y = e[2].y /\ e[1] # e[2] /\ p.y = e[1].y

\* C4 as stated: on a polygon with a horizontal edge, a query point at the
\* height of that edge makes is_within_polygon raise a division by zero.
C4_HorizontalEdgeRaises ==
    (result # "none" /\ HorizontalEdgeAt(polygon, point))
        => result = "ZeroDivisionError"

\* C4 as amended: on a polygon with a horizontal edge, a query point at the
\* height of that edge never reaches the interpolation of that edge (the
\* half-open range test is false for it): the call returns a boolean.
C4_HorizontalEdgeSkipped ==
    (result # "none" /\ HorizontalEdgeAt(polygon, point))
        => result \in {"True", "False"}

C4_Witness ==
    /\ result = "True"
    /\ ProperConvex(polygon)
    /\ HorizontalEdgeAt(polygon, point)

\* C8 as stated: every point a convex polygon contains, boundary and
\* vertices included, is reported inside, and every point strictly outside
\* the polygon's bounding box is reported outside.
C8_ContainedIsInside ==
    result # "none" =>
        /\ (ProperConvex(polygon) /\ Contains(polygon, point)) => result = "True"
        /\ (Convex(polygon) /\ ~InBoundingBox(polygon, point)) => result = "False"

\* C8 as amended: every interior point of a convex polygon is reported
\* inside, and every point strictly outside the polygon's bounding box is
\* reported outside.
C8_InteriorIsInside ==
    result # "none" =>
        /\ StrictlyInside(polygon, point) => result = "True"
        /\ (Convex(polygon) /\ ~InBoundingBox(polygon, point)) => result = "False"

C8_Witness ==
    /\ result = "True"
    /\ Len(polygon) = 4
    /\ Cardinality(VerticesOf(polygon)) = 4
    /\ StrictlyInside(polygon, point)

(***************************************************************************)
(* Branch generator and silhouette extractor                               *)
(*                                                                         *)
(* A node is [thickness, children]: children holds the indices of the      *)
(* child nodes in the order they were appended.  Positions and             *)
(* orientations are floats computed with sin and cos; no claim settled     *)
(* here reads them, and a silhouette point is named by the node and the    *)
(* side it was computed from.  The shaping functions are the caller's and  *)
(* may be random: each call yields any value of its range.                 *)
(***************************************************************************)
Node(thickness) == [thickness |-> thickness, children |-> <<>>]

\* A variant of TooThin that compares one half too low.
TooThinOffByOne(thickness) == thickness + 1 < minimum_node_thickness

\* branch.thickness < self.minimum_node_thickness
TooThin(thickness) == thickness < minimum_node_thickness

\* The values child_thickness may return for a parent of the given
\* thickness: the caller's contract is that branches get thinner.
ChildThicknesses(thickness) == 0..(thickness - 1)

Top == stack[Len(stack)]

Pop == SubSeq(stack, 1, Len(stack) - 1)

\* self.root = Node(); self.__generate_branches(self.root)
InitTree ==
    /\ minimum_node_thickness \in 1..MaxMinThickness
    /\ nodes = <<Node(RootThickness)>>
    /\ stack = <<[branch |-> 1, pc |-> "enter", left |-> 0]>>
    /\ silhouette = <<>>
    /\ tpc = "branches"
    /\ GeomIdle
    /\ InstanceIdle

\* __generate_branches(branch), up to the loop: return when the branch is
\* too thin, otherwise ask the caller for the offsets.
BranchEnter ==
    /\ tpc = "branches"
    /\ stack # <<>>
    /\ Top.pc = "enter"
    /\ IF TooThin(nodes[Top.branch].thickness)
       THEN stack' = Pop
       ELSE \E n \in 0..MaxChildren :
                stack' = [stack EXCEPT ![Len(stack)] =
                              [branch |-> Top.branch, pc |-> "loop", left |-> n]]
    /\ UNCHANGED <<minimum_node_thickness, nodes, silhouette, tpc>>
    /\ UNCHANGED <<geomVars, pictureVars, instanceVars>>

\* One turn of the loop over the offsets: create the child, append it to
\* branch.children and call __generate_branches on it.
BranchChild ==
    /\ tpc = "branches"
    /\ stack # <<>>
    /\ Top.pc = "loop"
    /\ Top.left > 0
    /\ \E t \in ChildThicknesses(nodes[Top.branch].thickness) :
          LET child == Len(nodes) + 1
          IN  /\ nodes' = Append([nodes EXCEPT ![Top.branch].children =
                                      Append(@, child)],
                                 Node(t))
              /\ stack' = Append([stack EXCEPT ![Len(stack)].left = @ - 1],
                                 [branch |-> child, pc |-> "enter", left |-> 0])
    /\ UNCHANGED <<minimum_node_thickness, silhouette, tpc>>
    /\ UNCHANGED <<geomVars, pictureVars, instanceVars>>

\* The loop over the offsets is over: the call returns.
BranchReturn ==
    /\ tpc = "branches"
    /\ stack # <<>>
    /\ Top.pc = "loop"
    /\ Top.left = 0
    /\ stack' = Pop
    /\ UNCHANGED <<minimum_node_thickness, nodes, silhouette, tpc>>
    /\ UNCHANGED <<geomVars, pictureVars, instanceVars>>

\* The outermost call has returned.
BranchesDone ==
    /\ tpc = "branches"
    /\ stack = <<>>
    /\ tpc' = "silhouette"
    /\ UNCHANGED <<minimum_node_thickness, nodes, stack, silhouette>>
    /\ UNCHANGED <<geomVars, pictureVars, instanceVars>>

RECURSIVE Flatten(_)
Flatten(seqs) == IF seqs = <<>> THEN <<>> ELSE Head(seqs) \o Flatten(Tail(seqs))

\* A variant of SilhouetteOf that adds the second point only for a node
\* with children.
RECURSIVE SilhouetteOfLeafOnce(_, _)
SilhouetteOfLeafOnce(tree, branch) ==
    <<[node |-> branch, side |-> "left"]>>
    \o Flatten([k \in 1..Len(tree[branch].children) |->
                   SilhouetteOfLeafOnce(tree, tree[branch].children[k])])
    \o (IF tree[branch].children = <<>>
        THEN <<>>
        ELSE <<[node |-> branch, side |-> "right"]>>)

\* What __generate_silhouette(branch, silhouette) appends to silhouette: the
\* point to the left, the points of the children in order, the point to the
\* right.
RECURSIVE SilhouetteOf(_, _)
SilhouetteOf(tree, branch) ==
    <<[node |-> branch, side |-> "left"]>>
    \o Flatten([k \in 1..Len(tree[branch].children) |->
                   SilhouetteOf(tree, tree[branch].children[k])])
    \o <<[node |-> branch, side |-> "right"]>>

\* self.silhouette = []; self.__generate_silhouette(self.root, self.silhouette)
GenerateSilhouette ==
    /\ tpc = "silhouette"
    /\ silhouette' = SilhouetteOf(nodes, 1)
    /\ tpc' = "done"
    /\ UNCHANGED <<minimum_node_thickness, nodes, stack>>
    /\ UNCHANGED <<geomVars, pictureVars, instanceVars>>

NextTree ==
    \/ BranchEnter
    \/ BranchChild
    \/ BranchReturn
    \/ BranchesDone
    \/ GenerateSilhouette

\* generate() runs to completion: no step of it waits for anything.
SpecTree == InitTree /\ [][NextTree]_vars /\ WF_vars(NextTree)

(***************************************************************************)
(* Branch and silhouette claims                                            *)
(***************************************************************************)
\* The index of a node's point of the given side in the silhouette.
Pos(n, side) ==
    CHOOSE i \in 1..Len(silhouette) : silhouette[i] = [node |-> n, side |-> side]

Occurrences(n, side) ==
    Cardinality({i \in 1..Len(silhouette) :
                     silhouette[i] = [node |-> n, side |-> side]})

\* C5: the silhouette has exactly two points per node of the tree, a node's
\* left point before and its right point after the points of its children,
\* the children in their stored order.
C5_TwoPointsPerNode ==
    tpc = "done" /\ nodes # <<>> =>
        /\ Len(silhouette) = 2 * Len(nodes)
        /\ \A n \in 1..Len(nodes) :
              /\ Occurrences(n, "left") = 1
              /\ Occurrences(n, "right") = 1
              /\ Pos(n, "left") < Pos(n, "right")
              /\ \A k \in 1..Len(nodes[n].children) :
                    LET c == nodes[n].children[k]
                    IN  /\ Pos(n, "left") < Pos(c, "left")
                        /\ Pos(c, "right") < Pos(n, "right")
                        /\ k > 1 => Pos(nodes[n].children[k - 1], "right")
                                        < Pos(c, "left")

\* A finished tree of three levels with a node of two children.
C5_Witness ==
    /\ tpc = "done"
    /\ Len(silhouette) >= 8
    /\ \E n \in 1..Len(nodes) : Len(nodes[n].children) = 2
    /\ \E n \in 2..Len(nodes) : nodes[n].children # <<>>

\* Every node thinner than the minimum is a leaf.
ThinNodesAreLeaves ==
    \A n \in 1..Len(nodes) : TooThin(nodes[n].thickness) => nodes[n].children = <<>>

\* A root thinner than the minimum stays alone, with a silhouette of two points.
ThinRootStaysAlone ==
    (tpc = "done" /\ nodes # <<>> /\ TooThin(RootThickness))
        => Len(nodes) = 1 /\ Len(silhouette) = 2

\* C9: only nodes at least as thick as the minimum get children; with
\* branches that get thinner generation ends; a root thinner than the
\* minimum gives the root alone and a silhouette of two points.
C9_ThinNodesStop ==
    /\ [](ThinNodesAreLeaves /\ ThinRootStaysAlone)
    /\ <>(tpc = "done")

\* A finished tree with a thin leaf below a node that has children.
C9_Witness ==
    /\ tpc = "done"
    /\ \E n \in 2..Len(nodes) :
          /\ nodes[n].children # <<>>
          /\ \E k \in 1..Len(nodes[n].children) :
                TooThin(nodes[nodes[n].children[k]].thickness)

(***************************************************************************)
(* Layers.  A layer is a sequence of rows, a row a sequence of cells; the   *)
(* code's picture[x][y] is Cell(picture, x, y).  A cell holds a Python     *)
(* value: a one-character string in a content layer, "True" or "False"     *)
(* (the booleans) in a mask layer.                                         *)
(***************************************************************************)
Rows == size[1]

Cols == size[2]

Cell(layer, x, y) == layer[x + 1][y + 1]

\* __get_blank_layer
get_blank_layer == [r \in 1..Rows |-> [c \in 1..Cols |-> " "]]

\* __get_blank_mask
get_blank_mask == [r \in 1..Rows |-> [c \in 1..Cols |-> "False"]]

PyBool(b) == IF b THEN "True" ELSE "False"

IsBool(v) == v \in {"True", "False"}

(***************************************************************************)
(* Rasterizer: the first part of __get_picture                             *)
(***************************************************************************)
MinOf(S) == CHOOSE m \in S : \A n \in S : m <= n

MaxOf(S) == CHOOSE m \in S : \A n \in S : m >= n

XsOf(poly) == {poly[i].x : i \in 1..Len(poly)}

YsOf(poly) == {poly[i].y : i \in 1..Len(poly)}

\* Point(adjusted_x, adjusted_y) of cell (x, y):
\*   adjusted_x = (x / rows) * x_range + x_min = (x * x_range + x_min * rows) / rows
AdjustedPoint(poly, rows, cols, x, y) ==
    LET x_min == MinOf(XsOf(poly))
        y_min == MinOf(YsOf(poly))
        x_range == MaxOf(XsOf(poly)) - x_min
        y_range == MaxOf(YsOf(poly)) - y_min
    IN  Frac(x * x_range + x_min * rows, rows, y * y_range + y_min * cols, cols)

\* What the containment test of cell (x, y) gives.
CellTest(poly, rows, cols, x, y) ==
    is_within_polygon(AdjustedPoint(poly, rows, cols, x, y), poly)

\* The picture after the rasterizing loop: '*' in the cells inside the outline.
Raster(poly, rows, cols) ==
    [r \in 1..rows |-> [c \in 1..cols |->
        IF CellTest(poly, rows, cols, r - 1, c - 1) = "True" THEN "*" ELSE " "]]

\* The rasterizing loop ends with the exception of a containment test.
RasterRaises(poly, rows, cols) ==
    \E r \in 1..rows : \E c \in 1..cols :
        CellTest(poly, rows, cols, r - 1, c - 1) = "ZeroDivisionError"

\* mask = [[c != " " for c in picture[i]] for i in range(len(picture))]
MaskOf(pic) ==
    [r \in 1..Len(pic) |-> [c \in 1..Len(pic[r]) |-> PyBool(pic[r][c] # " ")]]

(***************************************************************************)
(* Substitution engine: the second part of __get_picture                   *)
(***************************************************************************)
\* A variant of get_neighbourhood that reads the cells in column-major order.
get_neighbourhood_transposed(x, y, pic) ==
    [p \in 1..9 |->
        LET i == ((p - 1) % 3) - 1
            j == ((p - 1) \div 3) - 1
        IN  IF 0 <= x + i /\ x + i < Len(pic) /\ 0 <= y + j /\ y + j < Len(pic[1])
            THEN Cell(pic, x + i, y + j)
            ELSE " "]

\* __get_neighbourhood: the 9 characters at offsets i, j in -1..1 around
\* (x, y), i outermost, ' ' for a cell out of bounds.
get_neighbourhood(x, y, pic) ==
    [p \in 1..9 |->
        LET i == ((p - 1) \div 3) - 1
            j == ((p - 1) % 3) - 1
        IN  IF 0 <= x + i /\ x + i < Len(pic) /\ 0 <= y + j /\ y + j < Len(pic[1])
            THEN Cell(pic, x + i, y + j)
            ELSE " "]

\* for c1, c2 in zip(pattern, neighbours): if c1 != "a" and c1 != c2: break
\* The rule matches when the inner loop ends without a break.
RECURSIVE ZipMatches(_, _, _)
ZipMatches(pattern, neighbours, p) ==
    IF p > Len(pattern) \/ p > Len(neighbours)
    THEN TRUE
    ELSE IF pattern[p] # "a" /\ pattern[p] # neighbours[p]
         THEN FALSE
         ELSE ZipMatches(pattern, neighbours, p + 1)

\* for pattern, substitution in phase: the index of the rule the loop breaks
\* at, from rule i on; 0 when the loop runs to its else.
RECURSIVE FirstMatch(_, _, _)
FirstMatch(rules, neighbours, i) ==
    IF i > Len(rules)
    THEN 0
    ELSE IF ZipMatches(rules[i].pattern, neighbours, 1)
         THEN i
         ELSE FirstMatch(rules, neighbours, i + 1)

\* The values filtered_picture[x][y] may get in a phase that reads pic:
\* what substitution() of the matching rule returns, or picture[x][y].
CellOutputs(rules, pic, x, y) ==
    LET m == FirstMatch(rules, get_neighbourhood(x, y, pic), 1)
    IN  IF m = 0 THEN {Cell(pic, x, y)} ELSE rules[m].substitution

CursorX == cursor \div Cols

CursorY == cursor % Cols

SetCell(layer, x, y, v) == [layer EXCEPT ![x + 1][y + 1] = v]

(***************************************************************************)
(* Inputs: rules, phases, silhouettes                                      *)
(***************************************************************************)
\* A rule: the 9-character pattern and the characters its substitution()
\* may return (one character, or several for a generator that draws).
Rule(pattern, chars) == [pattern |-> pattern, substitution |-> chars]

\* "aaaaaaaaa" -> 'X'
FillRule == Rule(<<"a", "a", "a", "a", "a", "a", "a", "a", "a">>, {"X"})

\* "a aa*aaaa" -> '^': a marked cell with a blank above it
TopRule == Rule(<<"a", " ", "a", "a", "*", "a", "a", "a", "a">>, {"^"})

\* "a a *aaaa" -> 'o' or '@', drawn by the generator: a marked cell with a
\* blank above it and a blank to its left
LeafRule == Rule(<<"a", " ", "a", " ", "*", "a", "a", "a", "a">>, {"o", "@"})

\* "aaaa*aaaa" -> '#': any marked cell
BarkRule == Rule(<<"a", "a", "a", "a", "*", "a", "a", "a", "a">>, {"#"})

\* "aaa* aaaa" -> '.': a blank cell with a marked cell to its left
ShadowRule == Rule(<<"a", "a", "a", "*", " ", "a", "a", "a", "a">>, {"."})

FillPhase == <<FillRule>>

BarkPhase == <<LeafRule, TopRule, BarkRule>>

ShadowPhase == <<ShadowRule>>

MossPhase == <<ShadowRule, BarkRule>>

PhaseLists ==
    {<<>>, <<FillPhase>>, <<BarkPhase>>, <<MossPhase>>, <<ShadowPhase, BarkPhase>>}

Sizes == (1..MaxRows) \X (1..MaxCols)

\* Silhouettes of the instance specification: what the branch generator and
\* the extractor give for three sets of shaping functions.  A root alone
\* gives two points; the others are a triangle and a square.
Silhouettes ==
    { <<Pt(0, 0), Pt(0, 2)>>,
      <<Pt(0, 0), Pt(2, 1), Pt(0, 2)>>,
      <<Pt(0, 0), Pt(2, 0), Pt(2, 2), Pt(0, 2)>> }

Triangles == [1..3 -> Vertices]

\* The pictures the rasterizer gives for the triangles of the grid.
PictureSizes == (1..MaxPictureSide) \X (1..MaxPictureSide)

TriangleRasters ==
    [sz \in PictureSizes |-> {Raster(poly, sz[1], sz[2]) : poly \in Triangles}]

(***************************************************************************)
(* generate()                                                              *)
(***************************************************************************)
\* generate() up to the end of the rasterizing loop of __get_picture.  The
\* branch generator and the extractor are modelled on their own (SpecTree);
\* here their result is the silhouette of the instance.
GenerateRaster ==
    /\ pc = "idle"
    /\ calls < MaxCalls
    /\ calls' = calls + 1
    /\ last_call' = "generate"
    /\ IF RasterRaises(silhouette, Rows, Cols)
       THEN /\ raised' = "ZeroDivisionError"
            /\ UNCHANGED <<pc, pictureVars>>
       ELSE /\ raised' = "none"
            /\ picture' = Raster(silhouette, Rows, Cols)
            /\ mask' = MaskOf(picture')
            /\ phase' = 1
            /\ cursor' = 0
            /\ IF substitutions = <<>>
               THEN filtered_picture' = <<>> /\ pc' = "return"
               ELSE filtered_picture' = get_blank_layer /\ pc' = "phase"
    /\ UNCHANGED <<size, substitutions, composition, heights, output>>
    /\ UNCHANGED <<geomVars, treeVars>>

\* A variant of PhaseCell that rewrites picture in place: a cell reads the
\* cells rewritten before it in the same phase.
PhaseCellInPlace ==
    /\ pc = "phase"
    /\ cursor < Rows * Cols
    /\ \E ch \in CellOutputs(substitutions[phase], picture, CursorX, CursorY) :
          /\ filtered_picture' = SetCell(filtered_picture, CursorX, CursorY, ch)
          /\ picture' = SetCell(picture, CursorX, CursorY, ch)
    /\ cursor' = cursor + 1
    /\ UNCHANGED <<mask, phase>>
    /\ UNCHANGED <<geomVars, treeVars, instanceVars>>

\* One cell of a phase: the body of the loops over x and y.
PhaseCell ==
    /\ pc = "phase"
    /\ cursor < Rows * Cols
    /\ \E ch \in CellOutputs(substitutions[phase], picture, CursorX, CursorY) :
          filtered_picture' = SetCell(filtered_picture, CursorX, CursorY, ch)
    /\ cursor' = cursor + 1
    /\ UNCHANGED <<picture, mask, phase>>
    /\ UNCHANGED <<geomVars, treeVars, instanceVars>>

\* The end of a phase: picture = filtered_picture, and the next phase, if
\* there is one, starts with a blank filtered_picture.
PhaseEnd ==
    /\ pc = "phase"
    /\ cursor = Rows * Cols
    /\ picture' = filtered_picture
    /\ phase' = phase + 1
    /\ IF phase < Len(substitutions)
       THEN /\ filtered_picture' = get_blank_layer
            /\ cursor' = 0
            /\ UNCHANGED pc
       ELSE /\ pc' = "return"
            /\ UNCHANGED <<filtered_picture, cursor>>
    /\ UNCHANGED <<mask, size, substitutions, composition, heights, raised,
                   last_call, calls, output>>
    /\ UNCHANGED <<geomVars, treeVars>>

\* return [mask, filtered_picture] and self.composition += ...: reading
\* filtered_picture while it is unbound raises UnboundLocalError, and the
\* composition stays as it was.
GenerateReturn ==
    /\ pc = "return"
    /\ pc' = "idle"
    /\ IF filtered_picture = <<>>
       THEN /\ raised' = "UnboundLocalError"
            /\ UNCHANGED composition
       ELSE /\ raised' = "none"
            /\ composition' = composition \o <<mask, filtered_picture>>
    /\ UNCHANGED <<size, substitutions, heights, last_call, calls, output>>
    /\ UNCHANGED <<geomVars, treeVars, pictureVars>>

(***************************************************************************)
(* get_wave (src/util.py) and grass()                                      *)
(***************************************************************************)
\* One smoothing pass, without the division by 3, from index i on: the new
\* value at index i is wave[i - 2] + wave[i - 1] + wave[i] of the old wave,
\* negative indices counting from the end.
RECURSIVE WaveStep(_, _)
WaveStep(wave, i) ==
    IF i >= Len(wave)
    THEN <<>>
    ELSE <<PyIndex(wave, i - 2) + PyIndex(wave, i - 1) + PyIndex(wave, i)>>
         \o WaveStep(wave, i + 1)

RECURSIVE Smooth(_, _)
Smooth(wave, iterations) ==
    IF iterations = 0 THEN wave ELSE Smooth(WaveStep(wave, 0), iterations - 1)

RECURSIVE Pow3(_)
Pow3(n) == IF n = 0 THEN 1 ELSE 3 * Pow3(n - 1)

\* The values int(heights[c]) may take, sums being the wave after
\* WaveIterations passes with the divisions by 3 left out.  The exact height
\* is sums[c] / 3^WaveIterations.  Where that is an integer reached through
\* thirds (the first pass already leaves a remainder), the float may lie just
\* below it, and int() then gives one less.
HeightChoices(wave, sums, c) ==
    LET q == sums[c] \div Pow3(WaveIterations)
        thirds == \E i \in 1..Len(wave) : WaveStep(wave, 0)[i] % 3 # 0
    IN  IF sums[c] % Pow3(WaveIterations) = 0 /\ thirds /\ q >= 1
        THEN {q - 1, q}
        ELSE {q}

\* get_wave(length, maximum) followed by int(): every <<length, maximum, h>>
\* with h the integer heights for some random start
\* [randint(0, maximum) for _ in range(length)].
GetWaveHeights ==
    UNION {UNION {{<<a[1], a[2], h>> :
                      h \in {g \in [1..a[1] -> 0..a[2]] :
                                \A c \in 1..a[1] :
                                    g[c] \in HeightChoices(wave,
                                                 Smooth(wave, WaveIterations), c)}} :
                  wave \in [1..a[1] -> 0..a[2]]} :
           a \in (2..MaxCols) \X (0..MaxGrassHeight)}

\* The index of layer[-row] among the rows 0..rows-1: layer[-0] is layer[0].
NegRow(row) == IF row = 0 THEN 0 ELSE Rows - row

\* The cells the loops of grass() write for the integer heights h.
GrassCells(h) ==
    {cell \in (0..(Rows - 1)) \X (0..(Cols - 1)) :
        \E row \in 0..(h[cell[2] + 1] - 1) : cell[1] = NegRow(row)}

\* The layer and the mask grass() builds: choice gives the character
\* choice(chars) returned for each cell written.
GrassLayer(cells, choice) ==
    [r \in 1..Rows |-> [c \in 1..Cols |->
        IF <<r - 1, c - 1>> \in cells THEN choice[<<r - 1, c - 1>>] ELSE " "]]

GrassMask(cells) ==
    [r \in 1..Rows |-> [c \in 1..Cols |-> PyBool(<<r - 1, c - 1>> \in cells)]]

\* The alphabets grass() is called with.
GrassAlphabets == {{"g"}}

\* grass(max_height, chars).  get_wave indexes wave[i - 2]: a wave of one
\* column raises IndexError; so does layer[-row] for row > rows.
Grass ==
    /\ pc = "idle"
    /\ calls < MaxCalls
    /\ calls' = calls + 1
    /\ last_call' = "grass"
    /\ \E max_height \in 0..MaxGrassHeight : \E chars \in GrassAlphabets :
          IF Cols < 2
          THEN /\ raised' = "IndexError"
               /\ heights' = <<>>
               /\ UNCHANGED composition
          ELSE \E w \in GetWaveHeights :
                  /\ w[1] = Cols
                  /\ w[2] = max_height
                  /\ heights' = w[3]
                  /\ IF \E c \in 1..Cols : w[3][c] - 1 > Rows
                     THEN /\ raised' = "IndexError"
                          /\ UNCHANGED composition
                     ELSE LET cells == GrassCells(w[3])
                          IN  \E choice \in [cells -> chars] :
                                 /\ raised' = "none"
                                 /\ composition' = composition
                                        \o <<GrassMask(cells), GrassLayer(cells, choice)>>
    /\ UNCHANGED <<size, substitutions, pc, output>>
    /\ UNCHANGED <<geomVars, treeVars, pictureVars>>

(***************************************************************************)
(* export()                                                                *)
(***************************************************************************)
\* A variant of ExportChar that scans the layers from the last pair down.
RECURSIVE ExportCharTopDown(_, _, _)
ExportCharTopDown(layer, row, column) ==
    IF layer >= Len(composition)
    THEN " "
    ELSE LET below == ExportCharTopDown(layer + 2, row, column)
             char == Cell(composition[layer + 1], row, column)
         IN  IF below # " " THEN below
             ELSE IF char = "True" THEN Cell(composition[layer + 2], row, column)
             ELSE " "

\* A variant of ExportChar without the test type(char) != bool.
RECURSIVE ExportCharNoTypeTest(_, _, _)
ExportCharNoTypeTest(layer, row, column) ==
    IF layer >= Len(composition)
    THEN " "
    ELSE LET char == Cell(composition[layer + 1], row, column)
         IN  IF char = "True"
             THEN Cell(composition[layer + 2], row, column)
             ELSE IF char # " "
                  THEN char
                  ELSE ExportCharNoTypeTest(layer + 1, row, column)

\* The character export() prints for a cell: the loop over the layers from
\* index layer on, with its else.
RECURSIVE ExportChar(_, _, _)
ExportChar(layer, row, column) ==
    IF layer >= Len(composition)
    THEN " "
    ELSE LET char == Cell(composition[layer + 1], row, column)
         IN  IF char = "True"
             THEN Cell(composition[layer + 2], row, column)
             ELSE IF ~IsBool(char) /\ char # " "
                  THEN char
                  ELSE ExportChar(layer + 1, row, column)

\* export(): the rows of characters written to the file.
Export ==
    /\ pc = "idle"
    /\ output' = [r \in 1..Rows |-> [c \in 1..Cols |-> ExportChar(0, r - 1, c - 1)]]
    /\ last_call' = "export"
    /\ raised' = "none"
    /\ UNCHANGED <<size, substitutions, composition, pc, heights, calls>>
    /\ UNCHANGED <<geomVars, treeVars, pictureVars>>

(***************************************************************************)
(* Instance specification: a new AsciiTree, then generate(), grass() and   *)
(* export() calls in any order.                                            *)
(***************************************************************************)
Init ==
    /\ size \in Sizes
    /\ substitutions \in PhaseLists
    /\ silhouette \in Silhouettes
    /\ composition = <<>>
    /\ pc = "idle"
    /\ picture = <<>>
    /\ mask = <<>>
    /\ filtered_picture = <<>>
    /\ phase = 0
    /\ cursor = 0
    /\ heights = <<>>
    /\ raised = "none"
    /\ last_call = "none"
    /\ calls = 0
    /\ output = <<>>
    /\ minimum_node_thickness = 1
    /\ nodes = <<>>
    /\ stack = <<>>
    /\ tpc = "done"
    /\ GeomIdle

Next ==
    \/ GenerateRaster
    \/ PhaseCell
    \/ PhaseEnd
    \/ GenerateReturn
    \/ Grass
    \/ Export

Spec == Init /\ [][Next]_vars

(***************************************************************************)
(* Substitution specification: __get_picture after its rasterizing loop,   *)
(* on the picture of any triangle of the grid.                             *)
(***************************************************************************)
InitSubst ==
    /\ size \in PictureSizes
    /\ substitutions \in PhaseLists \ {<<>>}
    /\ picture \in TriangleRasters[size]
    /\ mask = MaskOf(picture)
    /\ filtered_picture = get_blank_layer
    /\ phase = 1
    /\ cursor = 0
    /\ pc = "phase"
    /\ composition = <<>>
    /\ heights = <<>>
    /\ raised = "none"
    /\ last_call = "generate"
    /\ calls = 1
    /\ output = <<>>
    /\ TreeIdle
    /\ GeomIdle

NextSubst ==
    \/ PhaseCell
    \/ PhaseEnd
    \/ GenerateReturn

SpecSubst == InitSubst /\ [][NextSubst]_vars

(***************************************************************************)
(* Composition claims (Spec)                                               *)
(***************************************************************************)
NumPairs == Len(composition) \div 2

PairMask(k) == composition[2 * k - 1]

PairContent(k) == composition[2 * k]

GridCells == (0..(Rows - 1)) \X (0..(Cols - 1))

MaskAt(k, cell) == Cell(PairMask(k), cell[1], cell[2]) = "True"

ContentAt(k, cell) == Cell(PairContent(k), cell[1], cell[2])

OutputAt(cell) == Cell(output, cell[1], cell[2])

\* export() was the last call: output is the rendering of composition.
Exported == last_call = "export"

\* C1 as stated: at every cell export emits the content character of the
\* earliest appended pair whose mask is true there (the silhouette's, not
\* the grass's, where both masks are true).
C1_EarliestMaskWins ==
    Exported =>
        \A cell \in GridCells : \A k \in 1..NumPairs :
            (MaskAt(k, cell) /\ \A j \in 1..(k - 1) : ~MaskAt(j, cell))
                => OutputAt(cell) = ContentAt(k, cell)

\* C1 as amended: at every cell export emits the content character of the
\* earliest appended pair whose mask is true there, provided the content
\* layers of the pairs appended before it are blank at that cell.
C1_EarliestMaskWinsOverBlanks ==
    Exported =>
        \A cell \in GridCells : \A k \in 1..NumPairs :
            (/\ MaskAt(k, cell)
             /\ \A j \in 1..(k - 1) : ~MaskAt(j, cell) /\ ContentAt(j, cell) = " ")
                => OutputAt(cell) = ContentAt(k, cell)

\* The silhouette pair first, a grass pair after it, both masks true at a
\* cell, and the silhouette's character exported there.
C1_Witness ==
    /\ Exported
    /\ NumPairs = 2
    /\ \E cell \in GridCells :
          /\ MaskAt(1, cell)
          /\ MaskAt(2, cell)
          /\ ContentAt(1, cell) \in {"X", "#", "^", "o", "@"}
          /\ ContentAt(2, cell) = "g"
          /\ OutputAt(cell) = ContentAt(1, cell)

\* C2: with no substitution phase generate() completes and appends the
\* rasterized picture as the content layer.
C2_EmptyPhasesKeepRaster ==
    (pc = "idle" /\ last_call = "generate" /\ substitutions = <<>>)
        => /\ raised = "none"
           /\ composition # <<>>
           /\ composition[Len(composition)] = Raster(silhouette, Rows, Cols)

\* C3: after grass() the mask of the new pair is true, in every column c,
\* in exactly the int(heights[c]) bottom rows, and the content layer holds a
\* character of chars in exactly those cells.
C3_GrassFromBottom ==
    (last_call = "grass" /\ raised = "none")
        => \A cell \in GridCells :
              LET covered == cell[1] >= Rows - heights[cell[2] + 1]
              IN  /\ MaskAt(NumPairs, cell) <=> covered
                  /\ IF covered
                     THEN ContentAt(NumPairs, cell) \in UNION GrassAlphabets
                     ELSE ContentAt(NumPairs, cell) = " "

\* C7 as stated: export emits a non-blank character only at a cell where
\* some mask of the composition is true.
C7_NonBlankOnlyUnderMask ==
    Exported =>
        \A cell \in GridCells :
            OutputAt(cell) # " " => \E k \in 1..NumPairs : MaskAt(k, cell)

\* C7 as amended: export emits a non-blank character only at a cell where
\* some mask is true or some content layer is non-blank; and a non-blank
\* character of a content layer outside its mask is emitted when no earlier
\* pair has a true mask or a non-blank character there.
C7_NonBlankOnlyUnderMaskOrContent ==
    Exported =>
        \A cell \in GridCells :
            /\ OutputAt(cell) # " "
                  => \E k \in 1..NumPairs : MaskAt(k, cell) \/ ContentAt(k, cell) # " "
            /\ \A k \in 1..NumPairs :
                  (/\ ~MaskAt(k, cell)
                   /\ ContentAt(k, cell) # " "
                   /\ \A j \in 1..(k - 1) : ~MaskAt(j, cell) /\ ContentAt(j, cell) = " ")
                      => OutputAt(cell) = ContentAt(k, cell)

\* A character written by a substitution outside the silhouette mask is
\* exported at a cell where no mask is true.
C7_Witness ==
    /\ Exported
    /\ NumPairs = 2
    /\ \E cell \in GridCells :
          /\ \A k \in 1..NumPairs : ~MaskAt(k, cell)
          /\ OutputAt(cell) \in {"X", "."}
    /\ \E cell \in GridCells : MaskAt(2, cell) /\ OutputAt(cell) # "g"

(***************************************************************************)
(* Substitution claims (SpecSubst)                                         *)
(***************************************************************************)
\* The character at offset (i, j) from (x, y), blank out of bounds.
NeighbourAt(pic, x, y, i, j) ==
    IF x + i \in 0..(Rows - 1) /\ y + j \in 0..(Cols - 1)
    THEN Cell(pic, x + i, y + j)
    ELSE " "

\* The rule's pattern matches the 3x3 neighbourhood of (x, y) in pic.
RuleMatches(rule, pic, x, y) ==
    \A i \in -1..1 : \A j \in -1..1 :
        LET c == rule.pattern[3 * (i + 1) + (j + 1) + 1]
        IN  c = "a" \/ c = NeighbourAt(pic, x, y, i, j)

\* The cell is what the phase's first matching rule gives, or the input cell.
CellFollowsFirstMatch(rules, pic, out, x, y) ==
    LET matching == {m \in 1..Len(rules) : RuleMatches(rules[m], pic, x, y)}
    IN  IF matching = {}
        THEN Cell(out, x, y) = Cell(pic, x, y)
        ELSE Cell(out, x, y) \in rules[MinOf(matching)].substitution

\* C6: in a phase every output cell is the replacement of the first rule
\* whose pattern matches the cell's neighbourhood, or the input cell when
\* none matches; the all-wildcard rule to 'X' sets every cell to 'X'.
C6_FirstMatchingRule ==
    pc = "phase" =>
        /\ \A n \in 0..(cursor - 1) :
              CellFollowsFirstMatch(substitutions[phase], picture, filtered_picture,
                                    n \div Cols, n % Cols)
        /\ (substitutions[phase] = FillPhase /\ cursor = Rows * Cols)
              => \A cell \in GridCells : Cell(filtered_picture, cell[1], cell[2]) = "X"

\* A finished phase in which the first, the second and the third rule each
\* gave a cell, and a cell was copied.
C6_Witness ==
    /\ pc = "phase"
    /\ cursor = Rows * Cols
    /\ substitutions[phase] = BarkPhase
    /\ \E cell \in GridCells : Cell(filtered_picture, cell[1], cell[2]) \in {"o", "@"}
    /\ \E cell \in GridCells : Cell(filtered_picture, cell[1], cell[2]) = "^"
    /\ \E cell \in GridCells : Cell(filtered_picture, cell[1], cell[2]) = "#"
    /\ \E cell \in GridCells : Cell(filtered_picture, cell[1], cell[2]) = " "

\* A step of a phase leaves the phase's input alone and writes one cell
\* computed from that input.
CellStepReadsInput ==
    (pc = "phase" /\ cursor' # cursor /\ phase' = phase)
        => /\ picture' = picture
           /\ cursor' = cursor + 1
           /\ \E ch \in CellOutputs(substitutions[phase], picture, CursorX, CursorY) :
                 filtered_picture' = SetCell(filtered_picture, CursorX, CursorY, ch)

\* The next phase starts when every cell is done, from the finished output.
NextPhaseReadsOutput ==
    phase' # phase
        => /\ phase' = phase + 1
           /\ cursor = Rows * Cols
           /\ picture' = filtered_picture
           /\ IF phase < Len(substitutions)
              THEN pc' = "phase" /\ cursor' = 0 /\ filtered_picture' = get_blank_layer
              ELSE pc' = "return"

\* The content layer appended is the output of the last phase.
LastOutputIsAppended ==
    composition' # composition
        => /\ phase = Len(substitutions) + 1
           /\ composition' = composition \o <<mask, picture>>

\* C10: the phases are applied in list order and double-buffered: a cell is
\* computed from the phase's complete input, the next phase reads the
\* finished output of the one before, and the content layer appended is the
\* output of the last phase.
C10_PhasesInOrderDoubleBuffered ==
    [][CellStepReadsInput /\ NextPhaseReadsOutput /\ LastOutputIsAppended]_vars

\* Two phases were applied and both left their characters in the content
\* layer appended.
C10_Witness ==
    /\ pc = "idle"
    /\ Len(substitutions) = 2
    /\ NumPairs = 1
    /\ \E cell \in GridCells : ContentAt(1, cell) = "."
    /\ \E cell \in GridCells : ContentAt(1, cell) = "^"
    /\ \E cell \in GridCells : ContentAt(1, cell) = "#"

(***************************************************************************)
(* Composition list claims (Spec)                                          *)
(***************************************************************************)
\* A rows x cols grid of booleans.
IsMaskGrid(layer) ==
    /\ Len(layer) = Rows
    /\ \A r \in 1..Rows :
          Len(layer[r]) = Cols /\ \A c \in 1..Cols : IsBool(layer[r][c])

\* A rows x cols grid of characters.
IsContentGrid(layer) ==
    /\ Len(layer) = Rows
    /\ \A r \in 1..Rows :
          Len(layer[r]) = Cols /\ \A c \in 1..Cols : ~IsBool(layer[r][c])

\* C11: after any sequence of generate() calls (with at least one
\* substitution phase) and grass() calls the composition holds one
\* (mask, content) pair per call: its length is twice the number of calls,
\* every even index a rows x cols grid of booleans and every odd index a
\* rows x cols grid of characters.
C11_EveryCallAppendsOnePair ==
    (pc = "idle" /\ substitutions # <<>>)
        => /\ Len(composition) = 2 * calls
           /\ \A k \in 1..calls :
                 IsMaskGrid(PairMask(k)) /\ IsContentGrid(PairContent(k))

\* The part of C11 that holds: the composition always has even length and
\* alternates boolean and character grids.
CompositionIsPairs ==
    /\ Len(composition) % 2 = 0
    /\ \A k \in 1..NumPairs :
          IsMaskGrid(PairMask(k)) /\ IsContentGrid(PairContent(k))

\* The part of C11 that holds: the composition changes only by one pair
\* appended at its end by a call that returns, and a call that returns
\* appends one.
ReturnedCallsAppendOnePair ==
    [][/\ composition' # composition
          => /\ raised' = "none"
             /\ Len(composition') = Len(composition) + 2
             /\ SubSeq(composition', 1, Len(composition)) = composition
       /\ (raised' = "none" /\ (calls' # calls \/ pc = "return") /\ pc' = "idle")
          => composition' # composition]_vars

====
